---- MODULE Spec2Model ----
(***************************************************************************)
(* The diagnostic report builder of occa::lang (codePrinter_t,            *)
(* src/src/lang/codes.cpp, src/include/occa/lang/codes.hpp): one primary   *)
(* origin and message, secondary sources routed to originLineSources or    *)
(* to the per-file map sources, supressSources trimming the map to the     *)
(* display budget, and print composing the sections handed to the sink.    *)
(***************************************************************************)
EXTENDS Integers, Sequences, FiniteSets, TLC

VARIABLES
  build,              \* which std::set implementation the program was built with
  isError,            \* codePrinter_t::isError
  origin,             \* codePrinter_t::origin (the primary origin)
  message,            \* codePrinter_t::message (the headline)
  originLineSources,  \* codePrinter_t::originLineSources, in iteration order
  sources,            \* codePrinter_t::sources: file -> bucket in iteration order
  sourceIndex,        \* codePrinter_t::sourceIndex
  supressedCount,     \* value returned by the last supressSources() call
  sections,           \* the strVector handed to the sink by print()
  sink,               \* which sink print() called: "none", "error", "warning"
  status,             \* "building", "printed", "failed" (OCCA_ERROR), "crashed"
  op,                 \* the last member function called on the report
  sidebar             \* a call of getSidebarWidth: its argument, locals, position

vars == <<build, isError, origin, message, originLineSources, sources,
          sourceIndex, supressedCount, sections, sink, status, op, sidebar>>

----------------------------------------------------------------------------
(* Bounds of the model *)

\* number of distinct files (file_t*), identified 1..NumFiles in pointer order
NumFiles == 3
\* withSource calls of a report in Spec
MaxSources == 2
\* withSource calls of a report in SpecLong
MaxLong == 7
\* largest line number passed to getSidebarWidth in SpecWidth
MaxWidthLine == 1200

(* Program constants *)

DEFAULT_MAX_ERRORS_DISPLAYED == 5

----------------------------------------------------------------------------
(* fileOrigin / filePosition (occa/lang/file.hpp, not part of the sources   *)
(* at hand): a file, a line and the start offset.  One offset per line is   *)
(* used, the start of the line.                                             *)

Files == 1..NumFiles

\* two lines of each file are referred to
Lines == 0..1

Pos(f, l) == [file |-> f, line |-> l, start |-> l]

Origins == {Pos(f, l) : f \in Files, l \in Lines}

\* inputs of the long reports: the primary's line, another line of the
\* primary's file, and a second file
LongOrigins == {Pos(1, 0), Pos(1, 1), Pos(2, 0)}

\* a default-constructed fileOrigin: no file, no position
NoOrigin == [file |-> 0, line |-> -1, start |-> -1]

isValid(o) == o.file # 0

onSameLine(a, b) == (a.file = b.file) /\ (a.line = b.line)

\* positive when b lies before a in the same file
distanceTo(a, b) == IF a.file # b.file THEN -1 ELSE a.start - b.start

Messages == {"headline"}

----------------------------------------------------------------------------
(* codeSource_t *)

codeSource_t(index_, origin_) == [index |-> index_, origin |-> origin_]

\* variant of withIndex that returns the copy with the index it had
withIndex_kept(source, index_) == codeSource_t(source.index, source.origin)

\* codeSource_t::withIndex
withIndex(source, index_) == codeSource_t(index_, source.origin)

\* variant of the comparison without the tie-break on the index
LessInt_noIndex(a, b) ==
  LET ao == a.origin
      bo == b.origin
  IN IF ao.file = bo.file
       THEN IF ao.start < bo.start THEN -1
            ELSE IF ao.start > bo.start THEN 1
            ELSE 0
       ELSE IF ao.file < bo.file THEN -1
            ELSE IF ao.file > bo.file THEN 1
            ELSE 0

\* the value the body of operator < returns, before its conversion to bool
LessInt(a, b) ==
  LET ao == a.origin
      bo == b.origin
  IN IF ao.file = bo.file
       THEN IF ao.start < bo.start THEN -1
            ELSE IF ao.start > bo.start THEN 1
            ELSE IF a.index < b.index THEN -1
            ELSE IF a.index > b.index THEN 1
            ELSE 0
       ELSE IF ao.file < bo.file THEN -1
            ELSE IF ao.file > bo.file THEN 1
            ELSE 0

\* bool operator < : the returned int converts to true when it is not 0
Less(a, b) == LessInt(a, b) # 0

----------------------------------------------------------------------------
(* std::set<codeSource_t>::insert.  A set is modelled by the sequence its   *)
(* iteration yields.  insert descends the search tree comparing the new     *)
(* key with the nodes it meets and links the key at the leaf it ends at.    *)
(* operator < above is no strict weak ordering (a < b and b < a both hold   *)
(* when a and b differ), so the standard leaves the result undefined; the   *)
(* outcome is what the descent of the library of the build produces:        *)
(*  "upper": go left when key < node (libstdc++, libc++)                    *)
(*  "lower": go right when node < key (MSVC STL)                            *)

Builds == {"upper", "lower"}

InsertAt(s, p, k) == SubSeq(s, 1, p) \o <<k>> \o SubSeq(s, p + 1, Len(s))

RECURSIVE UpperDescent(_, _, _, _)
UpperDescent(s, k, lo, hi) ==
  IF lo = hi THEN lo
  ELSE LET mid == (lo + hi + 1) \div 2
       IN IF Less(k, s[mid]) THEN UpperDescent(s, k, lo, mid - 1)
                             ELSE UpperDescent(s, k, mid, hi)

RECURSIVE LowerDescent(_, _, _, _)
LowerDescent(s, k, lo, hi) ==
  IF lo = hi THEN lo
  ELSE LET mid == (lo + hi + 1) \div 2
       IN IF Less(s[mid], k) THEN LowerDescent(s, k, mid, hi)
                             ELSE LowerDescent(s, k, lo, mid - 1)

SetInsert(s, k) ==
  IF build = "upper"
    THEN LET p == UpperDescent(s, k, 0, Len(s))
         IN IF p = 0 \/ Less(s[p], k) THEN InsertAt(s, p, k) ELSE s
    ELSE LET p == LowerDescent(s, k, 0, Len(s))
         IN IF p < Len(s) /\ ~Less(k, s[p + 1]) THEN s ELSE InsertAt(s, p, k)

----------------------------------------------------------------------------
(* std::map<file_t*, codeSourceSet>: a function from the files that have a  *)
(* bucket to the bucket; iteration is in file (pointer) order.              *)

EmptyMap == [f \in {} |-> <<>>]

\* sources[file]: the bucket, created empty when the file has none
Bucket(m, f) == IF f \in DOMAIN m THEN m[f] ELSE <<>>

MapPut(m, f, b) == [g \in DOMAIN m \cup {f} |-> IF g = f THEN b ELSE m[g]]

RECURSIVE SortedSeq(_)
SortedSeq(S) ==
  IF S = {} THEN <<>>
  ELSE LET x == CHOOSE y \in S : \A z \in S : y <= z
       IN <<x>> \o SortedSeq(S \ {x})

MapKeys(m) == SortedSeq(DOMAIN m)

RECURSIVE SumLen(_, _)
SumLen(m, S) ==
  IF S = {} THEN 0
  ELSE LET x == CHOOSE y \in S : TRUE
       IN Len(m[x]) + SumLen(m, S \ {x})

TotalSources(m) == SumLen(m, DOMAIN m)

----------------------------------------------------------------------------
(* codePrinter_t::codePrinter_t *)

\* getSidebarWidth is not being called
NoCall == [pc |-> "idle", maxLine |-> 0, width |-> 0, line |-> 0]

Init ==
  /\ build \in Builds
  /\ isError \in BOOLEAN
  /\ origin = NoOrigin
  /\ message = ""
  /\ originLineSources = <<>>
  /\ sources = EmptyMap
  /\ sourceIndex = 0
  /\ supressedCount = 0
  /\ sections = <<>>
  /\ sink = "none"
  /\ status = "building"
  /\ op = "new"
  /\ sidebar = NoCall

(* codePrinter_t::withMessage *)

\* variant of withMessage that starts the collection afresh
withMessage_reset(origin_, message_) ==
  /\ status = "building"
  /\ origin' = origin_
  /\ message' = message_
  /\ originLineSources' = <<>>
  /\ sources' = EmptyMap
  /\ op' = "withMessage"
  /\ UNCHANGED <<build, isError, sourceIndex, supressedCount, sections, sink,
                 status, sidebar>>

withMessage(origin_, message_) ==
  /\ status = "building"
  /\ origin' = origin_
  /\ message' = message_
  /\ op' = "withMessage"
  /\ UNCHANGED <<build, isError, originLineSources, sources, sourceIndex,
                 supressedCount, sections, sink, status, sidebar>>

(* codePrinter_t::withSource *)

\* variant of the routing condition that compares the file alone
RoutesToOriginLine_fileOnly(source) == source.origin.file = origin.file

\* the routing condition of withSource
RoutesToOriginLine(source) ==
  (source.origin.file = origin.file) /\ onSameLine(source.origin, origin)

\* variant of withSource that files the source in the map in either case
withSource_both(origin_) ==
  /\ status = "building"
  /\ LET source == codeSource_t(-1, origin_)
         stamped == withIndex(source, sourceIndex)
     IN /\ IF RoutesToOriginLine(source)
             THEN originLineSources' = SetInsert(originLineSources, stamped)
             ELSE UNCHANGED originLineSources
        /\ sources' = MapPut(sources, origin_.file,
                             SetInsert(Bucket(sources, origin_.file), stamped))
  /\ sourceIndex' = sourceIndex + 1
  /\ op' = "withSource"
  /\ UNCHANGED <<build, isError, origin, message, supressedCount, sections,
                 sink, status, sidebar>>

withSource(origin_) ==
  /\ status = "building"
  /\ LET source == codeSource_t(-1, origin_)
         stamped == withIndex(source, sourceIndex)
     IN IF RoutesToOriginLine(source)
          THEN /\ originLineSources' = SetInsert(originLineSources, stamped)
               /\ UNCHANGED sources
          ELSE /\ sources' = MapPut(sources, origin_.file,
                                    SetInsert(Bucket(sources, origin_.file), stamped))
               /\ UNCHANGED originLineSources
  /\ sourceIndex' = sourceIndex + 1
  /\ op' = "withSource"
  /\ UNCHANGED <<build, isError, origin, message, supressedCount, sections,
                 sink, status, sidebar>>

----------------------------------------------------------------------------
(* codePrinter_t::supressSources *)

\* variant of the size read that leaves the primary's file out of the budget
BucketSize_skipOrigin(m, f) == IF f = origin.file THEN 0 ELSE Len(m[f])

\* (int) fileSources.size()
BucketSize(m, f) == Len(m[f])

\* variant of the erase that removes the one entry at fileIt
EraseFrom_single(s, n) == SubSeq(s, 1, n) \o SubSeq(s, n + 2, Len(s))

\* variant of the erase that starts one entry late
EraseFrom_late(s, n) == SubSeq(s, 1, n + 1)

\* std::advance(fileIt, n); fileSources.erase(fileIt, fileSources.end())
EraseFrom(s, n) == SubSeq(s, 1, n)

\* sources.erase(it, sources.end()) with it at position i + 1 of the walk,
\* after the bucket at position i was cut to n entries
EraseRest(m, ks, i, n) ==
  [g \in {ks[j] : j \in 1..i} |-> IF g = ks[i] THEN EraseFrom(m[g], n) ELSE m[g]]

Returned(m, n) == [map |-> m, ret |-> n, crashed |-> FALSE]

Crashed(m) == [map |-> m, ret |-> 0, crashed |-> TRUE]

(* The walk of the while loop, with it at position i of the keys ks the map *)
(* had when the walk (re)started.  The value is the set of outcomes.        *)
(*                                                                          *)
(* sources.erase(it, sources.end()) invalidates it unless it is end(); the  *)
(* loop goes on to compare, dereference and increment it.  That is          *)
(* undefined; what a build does with the freed node is one of:              *)
(*  - the process dies (the freed node's links were overwritten);           *)
(*  - the freed node still reads as the bucket it was, and incrementing it  *)
(*    follows its stale parent link to end() or to a bucket still in the    *)
(*    map, where the walk goes on with the budget the stale bucket left.    *)
(* A stale bucket larger than the budget is erased from after it was        *)
(* destroyed, which frees its nodes a second time: the process dies.        *)
(* The last else branch of the loop (supressedCount += fileSourceCount) is  *)
(* unreachable: the two conditions before it are complementary.             *)
RECURSIVE SupressWalk(_, _, _, _, _)
SupressWalk(m, ks, i, sourcesAvailable, count) ==
  IF i > Len(ks) THEN {Returned(m, count)}
  ELSE
    LET fileSourceCount == BucketSize(m, ks[i])
    IN IF sourcesAvailable >= fileSourceCount
         THEN SupressWalk(m, ks, i + 1, sourcesAvailable - fileSourceCount, count)
         ELSE
           LET newCount == fileSourceCount - sourcesAvailable
               cut == EraseRest(m, ks, i, sourcesAvailable)
               kept == SubSeq(ks, 1, i)
           IN IF i = Len(ks)
                THEN {Returned(cut, newCount)}
                ELSE LET stale == Len(m[ks[i + 1]])
                     IN {Crashed(cut)} \cup
                        (IF sourcesAvailable >= stale
                           THEN UNION {SupressWalk(cut, kept, j,
                                                   sourcesAvailable - stale, newCount)
                                       : j \in 1..(i + 1)}
                           ELSE {})

SupressOutcomes(m) ==
  SupressWalk(m, MapKeys(m), 1, DEFAULT_MAX_ERRORS_DISPLAYED, 0)

supressSources ==
  /\ status = "building"
  /\ \E out \in SupressOutcomes(sources) :
       /\ sources' = out.map
       /\ IF out.crashed
            THEN status' = "crashed" /\ UNCHANGED supressedCount
            ELSE supressedCount' = out.ret /\ UNCHANGED status
  /\ op' = "supressSources"
  /\ UNCHANGED <<build, isError, origin, message, originLineSources,
                 sourceIndex, sections, sink, sidebar>>

----------------------------------------------------------------------------
(* Rendering.  A section (one std::string of the strVector) is modelled by  *)
(* the sequence of pieces written to its stringstream.                      *)

\* codePrinter_t::getSidebarWidth: the loop  while (line) { ++width; line /= 10; }
RECURSIVE SidebarLoop(_, _)
SidebarLoop(width, line) ==
  IF line # 0 THEN SidebarLoop(width + 1, line \div 10) ELSE width

getSidebarWidth(maxLine) == SidebarLoop(3, maxLine \div 10)

(* A call of getSidebarWidth taken statement by statement.  The argument   *)
(* is not negative (a line number), where / of C++ and \div agree.         *)

\* the members of the report, which getSidebarWidth does not touch
report == <<build, isError, origin, message, originLineSources, sources,
            sourceIndex, supressedCount, sections, sink, status, op>>

\* variant of the initialisation that starts the loop at maxLine itself
SidebarEntry_allDigits(maxLine) == [width |-> 3, line |-> maxLine]

\* int width = 3; int line = maxLine / 10;
SidebarEntry(maxLine) == [width |-> 3, line |-> maxLine \div 10]

sidebarEnter ==
  /\ sidebar.pc = "called"
  /\ sidebar' = [sidebar EXCEPT !.pc = "loop",
                                !.width = SidebarEntry(sidebar.maxLine).width,
                                !.line = SidebarEntry(sidebar.maxLine).line]
  /\ UNCHANGED report

\* while (line) { ++width; line /= 10; }
sidebarIterate ==
  /\ sidebar.pc = "loop"
  /\ sidebar.line # 0
  /\ sidebar' = [sidebar EXCEPT !.width = @ + 1, !.line = @ \div 10]
  /\ UNCHANGED report

\* return width;
sidebarReturn ==
  /\ sidebar.pc = "loop"
  /\ sidebar.line = 0
  /\ sidebar' = [sidebar EXCEPT !.pc = "returned"]
  /\ UNCHANGED report

\* variant of getSupressedMessage without the early return
getSupressedMessage_noEarlyReturn(count) ==
  <<[tok |-> "footer",
     text |-> <<"Supressed ", count, " additional ",
                IF count > 1
                  THEN (IF isError THEN "errors" ELSE "warnings")
                  ELSE (IF isError THEN "error" ELSE "warning")>>]>>

\* codePrinter_t::getSupressedMessage: "" is the empty sequence of pieces
getSupressedMessage(count) ==
  IF count <= 0 THEN <<>>
  ELSE <<[tok |-> "footer",
          text |-> <<"Supressed ", count, " additional ",
                     IF count > 1
                       THEN (IF isError THEN "errors" ELSE "warnings")
                       ELSE (IF isError THEN "error" ELSE "warning")>>]>>

\* codePrinter_t::addDivider: padding, then the divider
addDivider(divider, dividerSize, sidebarWidth) ==
  <<[tok |-> "divider", text |-> divider,
     padding |-> sidebarWidth - (dividerSize \div 2)]>>

\* codePrinter_t::addFilenameLine
addFilenameLine(file) == <<[tok |-> "filename", file |-> file]>>

\* addSourceLineMessages(ss, lineStartIt, it): the sources of [first, last)
addSourceLineMessages(s, first, last) ==
  <<[tok |-> "lines", refs |-> SubSeq(s, first, last - 1)]>>

\* variant of the loop that leaves lineStartIt at the beginning
RECURSIVE LineGroups_noRestart(_, _, _, _)
LineGroups_noRestart(s, i, lineStart, currentOrigin) ==
  IF i > Len(s) THEN addSourceLineMessages(s, lineStart, i)
  ELSE IF ~onSameLine(s[i].origin, currentOrigin)
         THEN addSourceLineMessages(s, lineStart, i)
              \o LineGroups_noRestart(s, i + 1, lineStart, s[i].origin)
         ELSE LineGroups_noRestart(s, i + 1, lineStart, currentOrigin)

\* the loop of addFileSection with it at position i
RECURSIVE LineGroups(_, _, _, _)
LineGroups(s, i, lineStart, currentOrigin) ==
  IF i > Len(s) THEN addSourceLineMessages(s, lineStart, i)
  ELSE IF ~onSameLine(s[i].origin, currentOrigin)
         THEN addSourceLineMessages(s, lineStart, i)
              \o LineGroups(s, i + 1, i, s[i].origin)
         ELSE LineGroups(s, i + 1, lineStart, currentOrigin)

\* codePrinter_t::addFileSection(std::stringstream&, ...)
addFileSection(file, fileSources, addFilename) ==
  IF Len(fileSources) = 0 THEN <<>>
  ELSE (IF addFilename THEN addFilenameLine(file) ELSE <<>>)
       \o LineGroups(fileSources, 1, 1,
                     [fileSources[1].origin EXCEPT !.line = -1])

Newline == <<[tok |-> "newline"]>>

RECURSIVE MaxLineOf(_, _, _)
MaxLineOf(s, i, maxLine) ==
  IF i > Len(s) THEN maxLine
  ELSE MaxLineOf(s, i + 1,
                 IF maxLine < s[i].origin.line THEN s[i].origin.line ELSE maxLine)

\* variant of the scan that takes a source after the primary for one before it
originIsFirstSource_after(fileSources) ==
  ~ \E i \in 1..Len(fileSources) :
       /\ ~onSameLine(fileSources[i].origin, origin)
       /\ distanceTo(origin, fileSources[i].origin) < 0

\* the scan of addOriginFileSection: FALSE when a source of the bucket is
\* off the primary's line and before the primary
originIsFirstSource(fileSources) ==
  ~ \E i \in 1..Len(fileSources) :
       /\ ~onSameLine(fileSources[i].origin, origin)
       /\ distanceTo(origin, fileSources[i].origin) > 0

needsDivider(fileSources) ==
  /\ ~originIsFirstSource(fileSources)
  /\ Len(originLineSources) # 0
  /\ Len(fileSources) # 0

\* codePrinter_t::addOriginFileSection: the one string it pushes
addOriginFileSection(fileSources) ==
  LET sidebarWidth == getSidebarWidth(MaxLineOf(fileSources, 1, origin.line))
      hasOriginSources == Len(originLineSources) # 0
      hasFileSources == Len(fileSources) # 0
      divider == needsDivider(fileSources)
  IN (IF hasOriginSources
        THEN Newline \o addFileSection(origin.file, originLineSources, TRUE)
        ELSE <<>>)
     \o (IF divider THEN Newline \o addDivider("^^^", 3, sidebarWidth) ELSE <<>>)
     \o (IF hasFileSources
           THEN (IF divider THEN Newline ELSE <<>>)
                \o addFileSection(origin.file, fileSources, FALSE)
           ELSE <<>>)

\* variant of the loop of addSourceSections without the test on the file
RECURSIVE OtherFileSections_noTest(_, _, _)
OtherFileSections_noTest(m, ks, i) ==
  IF i > Len(ks) THEN <<>>
  ELSE <<addFileSection(ks[i], m[ks[i]], TRUE)>>
       \o OtherFileSections_noTest(m, ks, i + 1)

\* the loop of addSourceSections over the keys ks of m, from position i
RECURSIVE OtherFileSections(_, _, _)
OtherFileSections(m, ks, i) ==
  IF i > Len(ks) THEN <<>>
  ELSE (IF ks[i] # origin.file
          THEN <<addFileSection(ks[i], m[ks[i]], TRUE)>>
          ELSE <<>>)
       \o OtherFileSections(m, ks, i + 1)

\* codePrinter_t::addSourceSections on the map m (sources[origin.file] made)
addSourceSections(m) ==
  <<addOriginFileSection(m[origin.file])>> \o OtherFileSections(m, MapKeys(m), 1)

----------------------------------------------------------------------------
(* codePrinter_t::print *)

\* OCCA_ERROR(..., origin.isValid()) throws: print is left at once
printFails ==
  /\ status' = "failed"
  /\ UNCHANGED <<sources, supressedCount, sections, sink>>

printBody ==
  \E out \in SupressOutcomes(sources) :
    IF out.crashed
      THEN /\ status' = "crashed"
           /\ sources' = out.map
           /\ UNCHANGED <<supressedCount, sections, sink>>
      ELSE LET m == MapPut(out.map, origin.file, Bucket(out.map, origin.file))
           IN /\ supressedCount' = out.ret
              /\ sources' = m
              /\ sections' = addSourceSections(m)
                             \o <<getSupressedMessage(out.ret)>>
              /\ sink' = IF isError THEN "error" ELSE "warning"
              /\ status' = "printed"

\* variant of print without the validation of the origin
printSteps_unchecked == printBody

printSteps == IF ~isValid(origin) THEN printFails ELSE printBody

print ==
  /\ status = "building"
  /\ printSteps
  /\ op' = "print"
  /\ UNCHANGED <<build, isError, origin, message, originLineSources, sourceIndex,
                 sidebar>>

----------------------------------------------------------------------------
(* Specifications *)

\* short reports over all files and lines, the primary set at any time
Next ==
  \/ \E o \in Origins, m \in Messages : withMessage(o, m)
  \/ \E o \in Origins : sourceIndex < MaxSources /\ withSource(o)
  \/ supressSources
  \/ print

Spec == Init /\ [][Next]_vars

\* long reports: the primary set first, then up to MaxLong sources
NextLong ==
  \/ \E m \in Messages : sourceIndex = 0 /\ withMessage(Pos(1, 0), m)
  \/ \E o \in LongOrigins : sourceIndex < MaxLong /\ withSource(o)
  \/ supressSources
  \/ print

SpecLong == Init /\ [][NextLong]_vars

(* getSidebarWidth called on a fresh report with each line number of       *)
(* 0..MaxWidthLine.  The call is sequential code: a statement that can run  *)
(* does run.                                                                *)

InitWidth ==
  /\ build \in Builds
  /\ isError \in BOOLEAN
  /\ origin = NoOrigin
  /\ message = ""
  /\ originLineSources = <<>>
  /\ sources = EmptyMap
  /\ sourceIndex = 0
  /\ supressedCount = 0
  /\ sections = <<>>
  /\ sink = "none"
  /\ status = "building"
  /\ op = "new"
  /\ sidebar \in {[pc |-> "called", maxLine |-> n, width |-> 0, line |-> 0] :
                    n \in 0..MaxWidthLine}

NextWidth ==
  \/ sidebarEnter
  \/ sidebarIterate
  \/ sidebarReturn

SpecWidth == InitWidth /\ [][NextWidth]_vars /\ WF_vars(NextWidth)

----------------------------------------------------------------------------
(* Properties *)

Elems(s) == {s[i] : i \in 1..Len(s)}

MapRefs(m) == UNION {Elems(m[f]) : f \in DOMAIN m}

\* a's key (file, start offset, insertion index) is lexicographically smaller
KeyBefore(a, b) ==
  \/ a.origin.file < b.origin.file
  \/ a.origin.file = b.origin.file /\ a.origin.start < b.origin.start
  \/ a.origin.file = b.origin.file /\ a.origin.start = b.origin.start
     /\ a.index < b.index

Ascending(s) == \A i \in 1..Len(s) : \A j \in 1..Len(s) : i < j => KeyBefore(s[i], s[j])

OnPrimaryLine(r) == r.origin.file = origin.file /\ r.origin.line = origin.line

\* C1: iterating originLineSources or any bucket of sources yields the
\* references in ascending order of (file, start offset, insertion index),
\* references with the same file and offset in arrival order.
C1_SetsAscending ==
  /\ Ascending(originLineSources)
  /\ \A f \in DOMAIN sources : Ascending(sources[f])

\* C2 (as stated): after any sequence of withMessage and withSource calls,
\* every stored reference in the primary origin's file and on its line is in
\* originLineSources and not in sources.
C2_OnPrimaryLineNeverInMap ==
  \A r \in MapRefs(sources) : ~OnPrimaryLine(r)

\* C2 (amended): a withSource call routes the reference by the primary origin
\* current at the call: the reference goes to originLineSources, and not to
\* sources, exactly when it is in that origin's file and on its line; later
\* withMessage calls do not move it.
C2_RoutedByCurrentPrimary ==
  [][sourceIndex' = sourceIndex + 1 =>
       \E r \in Elems(originLineSources') \cup MapRefs(sources') :
          /\ r.index = sourceIndex
          /\ r \notin Elems(originLineSources) \cup MapRefs(sources)
          /\ IF OnPrimaryLine(r)
               THEN r \in Elems(originLineSources') /\ r \notin MapRefs(sources')
               ELSE r \in Elems(Bucket(sources', r.origin.file))
                    /\ r \notin Elems(originLineSources')]_vars

\* a reference on the primary's line was collected into originLineSources
\* while sources holds references too
C2_Witness ==
  /\ \E r \in Elems(originLineSources) : OnPrimaryLine(r)
  /\ MapRefs(sources) # {}

----------------------------------------------------------------------------
(* Suppression *)

\* what C3 describes, on the keys ks of m from position i with the budget
\* left: buckets that fit are kept whole, the first that does not is cut to
\* the budget left, the buckets after it are removed
RECURSIVE ClaimedWalk(_, _, _, _)
ClaimedWalk(m, ks, i, budget) ==
  IF i > Len(ks) THEN m
  ELSE IF Len(m[ks[i]]) <= budget
         THEN ClaimedWalk(m, ks, i + 1, budget - Len(m[ks[i]]))
         ELSE [g \in {ks[j] : j \in 1..i} |->
                 IF g = ks[i] THEN SubSeq(m[g], 1, budget) ELSE m[g]]

\* C3: supressSources walks the buckets in file order with a budget of 5:
\* a bucket no larger than the budget left is kept whole and reduces it, the
\* first larger bucket is truncated to exactly the budget left, and every
\* bucket after that one is removed.
C3_WalkAsClaimed ==
  [][(op' = "supressSources" /\ status' = "building") =>
       sources' = ClaimedWalk(sources, MapKeys(sources), 1,
                              DEFAULT_MAX_ERRORS_DISPLAYED)]_vars

\* C4: the value supressSources returns is the number of references it
\* removed from the map, dropped buckets included.
C4_ReturnsRemovedCount ==
  [][(op' = "supressSources" /\ status' = "building") =>
       supressedCount' = TotalSources(sources) - TotalSources(sources')]_vars

\* C5 (as stated): supressSources never removes a reference from the bucket
\* of the primary origin's file.
C5_OriginBucketUntouched ==
  [][(op' = "supressSources" /\ status' = "building" /\ isValid(origin)
      /\ origin.file \in DOMAIN sources) =>
       (origin.file \in DOMAIN sources'
        /\ sources'[origin.file] = sources[origin.file])]_vars

\* references in the buckets of m up to and including the one of file f
UpTo(m, f) == SumLen(m, {g \in DOMAIN m : g <= f})

\* C5 (amended): supressSources applies to every bucket of sources, the one
\* of the primary origin's file included: that bucket consumes the budget
\* and is cut like any other, so that after the call the buckets up to and
\* including it hold at most 5 references; only originLineSources is
\* exempt, supressSources never changes it.
C5_OnlyOriginLineExempt ==
  [][(op' = "supressSources" /\ status' = "building") =>
       /\ originLineSources' = originLineSources
       /\ (isValid(origin) /\ origin.file \in DOMAIN sources) =>
             UpTo(sources', origin.file) <= DEFAULT_MAX_ERRORS_DISPLAYED]_vars

\* supressSources returned after cutting the bucket of the primary's file
C5_Witness ==
  /\ op = "supressSources" /\ status = "building" /\ isValid(origin)
  /\ DOMAIN sources = {origin.file}
  /\ Len(sources[origin.file]) = DEFAULT_MAX_ERRORS_DISPLAYED
  /\ supressedCount > 0
  /\ Len(originLineSources) > 0

\* C6: a second supressSources call right after a first one removes nothing:
\* the map after the second call is the map after the first.
C6_SecondCallRemovesNothing ==
  (op = "supressSources" /\ status = "building") =>
     \A out \in SupressOutcomes(sources) : ~out.crashed /\ out.map = sources

\* a first call that removed references has returned
C6_Witness ==
  op = "supressSources" /\ status = "building" /\ supressedCount > 0

\* C7 (as stated): after the suppression step of print at most 5 references
\* are rendered, origin-line references and all buckets together.
C7_AllRenderedWithinBudget ==
  status = "printed" =>
     Len(originLineSources) + TotalSources(sources) <= DEFAULT_MAX_ERRORS_DISPLAYED

\* C7 (amended): after the suppression step of print the buckets of sources
\* hold at most 5 references together; the references of originLineSources
\* are rendered besides them and are not counted.
C7_BucketsWithinBudget ==
  status = "printed" => TotalSources(sources) <= DEFAULT_MAX_ERRORS_DISPLAYED

\* print rendered a full budget of bucket references and origin-line ones
C7_Witness ==
  /\ status = "printed" /\ supressedCount > 0
  /\ TotalSources(sources) = DEFAULT_MAX_ERRORS_DISPLAYED
  /\ Len(originLineSources) > 0

----------------------------------------------------------------------------
(* print *)

\* C8: print on a report whose primary origin was never set fails with the
\* validation error before anything else: supressSources is not run, sources
\* and originLineSources are unchanged, no section is built and no sink is
\* called.
C8_InvalidOriginFailsFirst ==
  [][(status = "building" /\ op' = "print" /\ ~isValid(origin)) =>
       /\ status' = "failed"
       /\ sources' = sources
       /\ originLineSources' = originLineSources
       /\ supressedCount' = supressedCount
       /\ sections' = <<>>
       /\ sink' = "none"]_vars

\* print failed on a report that holds more references than the budget
C8_Witness ==
  /\ status = "failed" /\ op = "print"
  /\ TotalSources(sources) > DEFAULT_MAX_ERRORS_DISPLAYED

\* the references a section shows, and the files it names or shows
RefsOf(sec) ==
  UNION {IF sec[k].tok = "lines" THEN Elems(sec[k].refs) ELSE {} : k \in DOMAIN sec}

FilesOf(sec) ==
  {r.origin.file : r \in RefsOf(sec)}
  \cup UNION {IF sec[k].tok = "filename" THEN {sec[k].file} ELSE {} : k \in DOMAIN sec}

Shows(sec, k, S) == sec[k].tok = "lines" /\ Elems(sec[k].refs) \cap S # {}

\* the files of sources other than the primary's, in map order
OtherFiles == SortedSeq(DOMAIN sources \ {origin.file})

\* C9: the list print hands to the sink starts with the origin-file section
\* (origin-line references, then the divider, then the other references of
\* the origin file), goes on with exactly one section per remaining file of
\* sources in file order, never showing the origin file again, and has the
\* footer, when there is one, last.
C9_SectionOrder ==
  status = "printed" =>
    LET n == Len(sections)
        first == sections[1]
        lineRefs == Elems(originLineSources)
        fileRefs == Elems(sources[origin.file])
    IN /\ n = Len(OtherFiles) + 2
       /\ RefsOf(first) = lineRefs \cup fileRefs
       /\ \A k1 \in DOMAIN first : \A k2 \in DOMAIN first :
            /\ (Shows(first, k1, lineRefs) /\ first[k2].tok = "divider") => k1 < k2
            /\ (first[k1].tok = "divider" /\ Shows(first, k2, fileRefs)) => k1 < k2
            /\ (Shows(first, k1, lineRefs) /\ Shows(first, k2, fileRefs)) => k1 < k2
       /\ \A i \in 1..Len(OtherFiles) :
            LET sec == sections[i + 1]
                f == OtherFiles[i]
            IN /\ FilesOf(sec) \subseteq {f}
               /\ RefsOf(sec) = Elems(sources[f])
               /\ Len(sources[f]) > 0 => (sec[1].tok = "filename" /\ sec[1].file = f)
       /\ \A i \in 1..(n - 1) : \A k \in DOMAIN sections[i] :
            sections[i][k].tok # "footer"
       /\ \A k \in DOMAIN sections[n] : sections[n][k].tok = "footer"

\* print rendered sections for two files besides the primary's
C9_Witness ==
  /\ status = "printed"
  /\ Len(OtherFiles) >= 2
  /\ \A i \in 1..Len(OtherFiles) : Len(sources[OtherFiles[i]]) > 0

\* C10 (as stated): the list handed to the sink has a footer entry exactly
\* when the dropped count is greater than 0; with nothing suppressed it holds
\* the file sections and no further entry.
C10_NoEntryWithoutSuppression ==
  status = "printed" =>
    Len(sections) = 1 + Len(OtherFiles) + (IF supressedCount > 0 THEN 1 ELSE 0)

\* C10 (amended): print always appends one last entry, the value of
\* getSupressedMessage: it is the footer text exactly when the dropped count
\* is greater than 0, and the empty string when nothing was suppressed.
C10_LastEntryIsFooterOrEmpty ==
  status = "printed" =>
    LET last == sections[Len(sections)]
    IN /\ Len(sections) = 1 + Len(OtherFiles) + 1
       /\ (supressedCount > 0) <=> (last # <<>>)
       /\ last # <<>> =>
            (Len(last) = 1 /\ last[1].tok = "footer"
             /\ last[1].text[2] = supressedCount)

\* print appended the footer of a report with suppressed references
C10_Witness ==
  /\ status = "printed" /\ supressedCount > 0
  /\ sections[Len(sections)] # <<>>

\* C11: for a dropped count N > 0 the footer text is "Suppressed N
\* additional " followed by "error" (N = 1) or "errors" (N > 1) for an error
\* report and by "warning" or "warnings" for a warning report.
C11_FooterAsClaimed ==
  (status = "printed" /\ supressedCount > 0) =>
    LET last == sections[Len(sections)]
        noun == IF isError
                  THEN (IF supressedCount = 1 THEN "error" ELSE "errors")
                  ELSE (IF supressedCount = 1 THEN "warning" ELSE "warnings")
    IN /\ Len(last) = 1
       /\ last[1].text = <<"Suppressed ", supressedCount, " additional ", noun>>


\* the first section (the primary's file) holds the divider
HasDivider == \E k \in DOMAIN sections[1] : sections[1][k].tok = "divider"

\* C12: the divider "^^^" is in the origin-file section only when the
\* bucket of the primary's file holds at least one reference and one of
\* its references is off the primary's line and before the primary; with
\* no reference in that bucket there is no divider, whatever other files
\* the report has.
C12_DividerOnlyWhenNeeded ==
  (status = "printed" /\ HasDivider) =>
    LET bucket == Bucket(sources, origin.file)
    IN /\ Len(bucket) > 0
       /\ \E r \in Elems(bucket) :
            /\ r.origin.line # origin.line
            /\ r.origin.start < origin.start

\* print emitted the divider between the sources on the primary's line and
\* the other sources of the primary's file
C12_Witness ==
  /\ status = "printed" /\ HasDivider
  /\ Len(originLineSources) > 0
  /\ Len(Bucket(sources, origin.file)) > 0


\* the decimal digits of n beyond the first, p the next power of ten
RECURSIVE DigitsBeyond(_, _)
DigitsBeyond(n, p) == IF n < p THEN 0 ELSE 1 + DigitsBeyond(n, p * 10)

\* C13: getSidebarWidth(maxLine) returns 3 plus one for every decimal digit
\* of maxLine beyond the first (3 for 0..9, 4 for 10..99, 5 for 100..999),
\* for every maxLine of 0..MaxWidthLine, and the digit-counting loop
\* terminates: every call returns.
C13_WidthByDigits ==
  /\ [](sidebar.pc = "returned" =>
          /\ sidebar.width = 3 + DigitsBeyond(sidebar.maxLine, 10)
          /\ sidebar.width = getSidebarWidth(sidebar.maxLine)
          /\ sidebar.maxLine \in 0..9 => sidebar.width = 3
          /\ sidebar.maxLine \in 10..99 => sidebar.width = 4
          /\ sidebar.maxLine \in 100..999 => sidebar.width = 5)
  /\ <>(sidebar.pc = "returned")

\* the call with maxLine = 523 returned 5 after two turns of the loop
C13_Witness ==
  /\ sidebar.pc = "returned"
  /\ sidebar.maxLine = 523
  /\ sidebar.width = 5


\* the insertion indices of the references of a set or bucket
Indices(s) == {s[i].index : i \in 1..Len(s)}

\* C14: in every reachable state of a report (after any sequence of
\* withMessage, withSource, supressSources) originLineSources and sources
\* are disjoint: no reference, identified by its insertion index, is stored
\* in both.
C14_SetsDisjoint ==
  \A f \in DOMAIN sources : Indices(originLineSources) \cap Indices(sources[f]) = {}

\* both collections hold references of the primary's file, and suppression
\* has cut a bucket
C14_Witness ==
  /\ op = "supressSources" /\ supressedCount > 0
  /\ Len(originLineSources) > 0
  /\ Len(Bucket(sources, origin.file)) > 0


\* C15: withMessage replaces the primary origin and the headline message
\* and changes nothing else: originLineSources, sources and sourceIndex are
\* the same after the call as before it, so references collected earlier
\* are not routed again.
C15_WithMessageFrame ==
  [][op' = "withMessage" =>
       /\ origin' \in Origins
       /\ message' \in Messages
       /\ originLineSources' = originLineSources
       /\ sources' = sources
       /\ sourceIndex' = sourceIndex
       /\ <<build, isError, supressedCount, sections, sink, status>>'
            = <<build, isError, supressedCount, sections, sink, status>>]_vars

\* withMessage moved the primary onto the line of a reference that was
\* filed in the map, and off the line of one in originLineSources
C15_Witness ==
  /\ op = "withMessage"
  /\ \E r \in MapRefs(sources) : OnPrimaryLine(r)
  /\ \E i \in 1..Len(originLineSources) : ~OnPrimaryLine(originLineSources[i])


\* the references the report holds
Stored == Elems(originLineSources) \cup MapRefs(sources)

\* C16: operator < on references is a strict total order on (file, position
\* start offset, insertion index): a < a is never true, for two references
\* that differ in that key exactly one of a < b and b < a is true, and
\* a < b holds exactly when a's key is lexicographically smaller than b's.
C16_StrictTotalOrder ==
  \A a \in Stored : \A b \in Stored :
    /\ ~Less(a, a)
    /\ a # b => (Less(a, b) <=> ~Less(b, a))
    /\ Less(a, b) <=> KeyBefore(a, b)


\* C17: when supressSources cuts a bucket of n references to k < n entries,
\* the k kept are the k smallest of the bucket by (start offset, insertion
\* index): every kept reference comes before every dropped one, so among
\* references at the same offset the earliest-arrived are kept.
C17_KeepsLowestOrdered ==
  [][\A f \in DOMAIN sources \cap DOMAIN sources' :
       Len(sources'[f]) < Len(sources[f]) =>
         \A kept \in Elems(sources'[f]) :
           \A dropped \in Elems(sources[f]) \ Elems(sources'[f]) :
             KeyBefore(kept, dropped)]_vars


\* C18: the insertion index is assigned monotonically: every withSource
\* call stamps the stored reference with the current value of sourceIndex
\* and increases sourceIndex by exactly 1, whichever set the reference goes
\* to, so the k-th reference collected carries index k-1, and no two stored
\* references share an index.
C18_IndexStamped ==
  [][op' = "withSource" =>
       LET before == Elems(originLineSources) \cup MapRefs(sources)
           after == Elems(originLineSources') \cup MapRefs(sources')
       IN /\ sourceIndex' = sourceIndex + 1
          /\ before \subseteq after
          /\ \E r \in after \ before :
               /\ after \ before = {r}
               /\ r.index = sourceIndex
          /\ \A a \in after : \A b \in after : a.index = b.index => a = b
          /\ \A a \in after : a.index \in 0..(sourceIndex' - 1)]_vars

\* the second of two references at one place was stamped 1, the first being
\* in originLineSources and the second, after the primary moved, in sources
C18_Witness ==
  /\ op = "withSource" /\ sourceIndex = 2
  /\ \E a \in Elems(originLineSources) : \E b \in MapRefs(sources) :
       a.origin = b.origin /\ a.index = 0 /\ b.index = 1


\* the groups addFileSection passes to the line renderer for the set s, each
\* the sequence of its references, in the order of the calls
GroupsOf(s) ==
  LET toks == addFileSection(s[1].origin.file, s, FALSE)
  IN [k \in 1..Len(toks) |-> toks[k].refs]

\* the non-empty sets the report holds
StoredSets ==
  {s \in {originLineSources} \cup {sources[f] : f \in DOMAIN sources} : Len(s) > 0}

RECURSIVE Concat(_, _)
Concat(g, k) == IF k > Len(g) THEN <<>> ELSE g[k] \o Concat(g, k + 1)

\* the groups of g from the k-th on are non-empty, each on one line, and
\* each starts with a reference off the line of the group before it
LineGroupsFrom(g, k) ==
  /\ \A j \in k..Len(g) :
       /\ Len(g[j]) > 0
       /\ \A i \in 1..Len(g[j]) : onSameLine(g[j][i].origin, g[j][1].origin)
  /\ \A j \in k..(Len(g) - 1) : ~onSameLine(g[j + 1][1].origin, g[j][1].origin)

\* C19 (as stated): addFileSection partitions a non-empty reference set
\* into consecutive line-groups in set order: every group passed to the
\* line renderer is non-empty, all references of a group are on the same
\* line, a new group starts exactly where a reference is not on the line of
\* the current group's anchor, and every reference is in exactly one group.
C19_GroupsPartition ==
  \A s \in StoredSets :
    /\ LineGroupsFrom(GroupsOf(s), 1)
    /\ Concat(GroupsOf(s), 1) = s

\* C19 (amended): the first range addFileSection passes to the line
\* renderer is always empty (the anchor starts with line -1, so the first
\* reference closes an empty group); the ranges after it are non-empty
\* consecutive line-groups in set order, each on one line, a new one
\* starting exactly where a reference is off the line of the current
\* group's anchor, and every reference is in exactly one of them.
C19_GroupsAfterEmptyFirst ==
  \A s \in StoredSets :
    /\ Len(GroupsOf(s)) >= 2
    /\ GroupsOf(s)[1] = <<>>
    /\ LineGroupsFrom(GroupsOf(s), 2)
    /\ Concat(GroupsOf(s), 1) = s

\* print rendered the bucket of another file whose two references are on
\* different lines: the empty range and two line-groups
C19_Witness ==
  /\ status = "printed"
  /\ \E f \in DOMAIN sources :
       /\ f # origin.file
       /\ Len(sources[f]) > 0
       /\ Len(GroupsOf(sources[f])) >= 3
       /\ \E i \in 2..Len(sections) :
            sections[i] = addFileSection(f, sources[f], TRUE)


\* the number of references the report holds
StoredCount == Len(originLineSources) + TotalSources(sources)

\* C20: no reference is lost or duplicated at collection time: every
\* withSource call raises the number of references in originLineSources
\* plus the sizes of all buckets by exactly one, also when the report holds
\* a reference with the same file and start offset, and withMessage leaves
\* the number as it is; so after n withSource calls and before any
\* suppression the number is n.
C20_CountsEveryCall ==
  [][/\ op' = "withSource" =>
          (StoredCount' = StoredCount + 1
           /\ (StoredCount = sourceIndex => StoredCount' = sourceIndex'))
     /\ op' = "withMessage" => StoredCount' = StoredCount]_vars

\* two references with the same file and start offset were collected and
\* nothing was suppressed: both are stored
C20_Witness ==
  /\ op = "withSource" /\ sourceIndex = 2 /\ StoredCount = 2
  /\ \E a \in Stored : \E b \in Stored : a # b /\ a.origin = b.origin

====
